---- MODULE Spec2Model ----
(***************************************************************************)
(* reposelect: relevance ranking and budget-constrained file selection,    *)
(* with optional delegation to external selection agents.                  *)
(*                                                                         *)
(* Two command-line entry points are modelled:                             *)
(*   cli = "reposelect"  src/reposelect.ts (agent attempt, then the        *)
(*                       deterministic discovery/scoring/selection path)   *)
(*   cli = "agent"       the agent-only entry point (chain of agents)      *)
(*                                                                         *)
(* Paths, file contents and questions are sequences of one-character       *)
(* strings so that lower-casing, substring search and pattern matching     *)
(* are computed rather than assumed.  Scores are integers in units of      *)
(* 1/200; log10 is taken to one decimal place (floor).                     *)
(***************************************************************************)
EXTENDS Integers, Sequences, FiniteSets, TLC

(***************************************************************************)
(* Bounds of the model                                                     *)
(***************************************************************************)
MaxBudget == 2

MaxAgentFiles == 2

MaxAbsent == 3

MaxAbsentWithAgent == 0

MaxAbsentWithFaults == 0

MaxWords == 3

MaxKeywords == 2

MaxSize == 120

MaxAgeDays == 120

MaxSkewDays == 2

MaxScored == 3

MaxResponseLen == 5

(***************************************************************************)
(* Program constants                                                       *)
(***************************************************************************)
MIN_SELECTED_FILES == 8

COMMON_STOPWORDS ==
  { <<"t","h","e">>, <<"a","n","d">>, <<"f","o","r">>, <<"a","r","e">>,
    <<"w","i","t","h">>, <<"n","o","t">>, <<"y","o","u">>, <<"a","l","l">>,
    <<"c","a","n">>, <<"h","a","s">>, <<"h","e","r">>, <<"w","a","s">>,
    <<"o","n","e">>, <<"o","u","r">>, <<"o","u","t">>, <<"d","a","y">>,
    <<"g","e","t">>, <<"h","a","d">>, <<"h","i","s">>, <<"h","o","w">>,
    <<"m","a","n">>, <<"n","e","w">>, <<"n","o","w">>, <<"o","l","d">>,
    <<"s","e","e">>, <<"t","w","o">>, <<"w","a","y">>, <<"w","h","o">>,
    <<"b","o","y">>, <<"d","i","d">>, <<"i","t","s">>, <<"l","e","t">>,
    <<"p","u","t">>, <<"s","a","y">>, <<"s","h","e">>, <<"t","o","o">>,
    <<"u","s","e">> }

MUST_INCLUDE_PATTERNS ==
  << [pre |-> <<"r","e","a","d","m","e",".","m","d">>, suf |-> <<>>, exact |-> TRUE],
     [pre |-> <<"c","h","a","n","g","e","l","o","g">>, suf |-> <<>>, exact |-> FALSE],
     [pre |-> <<"l","i","c","e","n","s","e">>, suf |-> <<>>, exact |-> TRUE],
     [pre |-> <<"d","o","c","s","/">>, suf |-> <<>>, exact |-> FALSE],
     [pre |-> <<"p","a","c","k","a","g","e",".","j","s","o","n">>, suf |-> <<>>, exact |-> TRUE],
     [pre |-> <<"p","n","p","m","-","l","o","c","k",".","y","a","m","l">>, suf |-> <<>>, exact |-> TRUE],
     [pre |-> <<"y","a","r","n",".","l","o","c","k">>, suf |-> <<>>, exact |-> TRUE],
     [pre |-> <<"n","p","m","-","l","o","c","k",".","j","s","o","n">>, suf |-> <<>>, exact |-> TRUE],
     [pre |-> <<"r","e","q","u","i","r","e","m","e","n","t","s",".","t","x","t">>, suf |-> <<>>, exact |-> TRUE],
     [pre |-> <<"p","y","p","r","o","j","e","c","t",".","t","o","m","l">>, suf |-> <<>>, exact |-> TRUE],
     [pre |-> <<"t","s","c","o","n","f","i","g">>, suf |-> <<".","j","s","o","n">>, exact |-> FALSE],
     [pre |-> <<".","e","s","l","i","n","t","r","c">>, suf |-> <<>>, exact |-> FALSE],
     [pre |-> <<".","p","r","e","t","t","i","e","r","r","c">>, suf |-> <<>>, exact |-> FALSE],
     [pre |-> <<"d","o","c","k","e","r","f","i","l","e">>, suf |-> <<>>, exact |-> FALSE],
     [pre |-> <<"m","a","k","e","f","i","l","e">>, suf |-> <<>>, exact |-> TRUE],
     [pre |-> <<>>, suf |-> <<".","e","n","v",".","e","x","a","m","p","l","e">>, exact |-> FALSE],
     [pre |-> <<".","g","i","t","i","g","n","o","r","e">>, suf |-> <<>>, exact |-> TRUE],
     [pre |-> <<".","e","n","v">>, suf |-> <<>>, exact |-> TRUE] >>

IGNORE_PATTERNS ==
  { <<"n","o","d","e","_","m","o","d","u","l","e","s","/">>,
    <<"d","i","s","t","/">>,
    <<"b","u","i","l","d","/">>,
    <<".","g","i","t","/">>,
    <<"c","o","v","e","r","a","g","e","/">>,
    <<".","n","e","x","t","/">>,
    <<".","n","u","x","t","/">>,
    <<".","v","s","c","o","d","e","/">>,
    <<".","i","d","e","a","/">> }

FILE_EXCLUDE_SUFFIXES ==
  { <<".","m","i","n",".","j","s">>, <<".","m","i","n",".","c","s","s">>, <<".","m","a","p">>, <<".","d",".","t","s">> }

SOURCE_FILE_EXTENSIONS ==
  { <<".","t","s">>, <<".","t","s","x">>, <<".","j","s">>, <<".","j","s","x">>, <<".","p","y">>, <<".","g","o">>, <<".","r","b">>, <<".","j","a","v","a">>, <<".","c","s">>, <<".","m","d">>, <<".","j","s","o","n">>, <<".","t","o","m","l">>, <<".","y","a","m","l">>, <<".","y","m","l">> }

(***************************************************************************)
(* String primitives (String.prototype.toLowerCase / includes /            *)
(* startsWith / endsWith on character sequences)                           *)
(***************************************************************************)
UpperToLower ==
  ("A" :> "a") @@ ("B" :> "b") @@ ("C" :> "c") @@ ("D" :> "d") @@ ("E" :> "e") @@ ("F" :> "f") @@ ("G" :> "g") @@ ("H" :> "h") @@ ("I" :> "i") @@ ("J" :> "j") @@ ("K" :> "k") @@ ("L" :> "l") @@ ("M" :> "m") @@ ("N" :> "n") @@ ("O" :> "o") @@ ("P" :> "p") @@ ("Q" :> "q") @@ ("R" :> "r") @@ ("S" :> "s") @@ ("T" :> "t") @@ ("U" :> "u") @@ ("V" :> "v") @@ ("W" :> "w") @@ ("X" :> "x") @@ ("Y" :> "y") @@ ("Z" :> "z")

WordChars ==
  { "a", "b", "c", "d", "e", "f", "g", "h", "i", "j", "k", "l", "m", "n", "o", "p", "q", "r", "s", "t", "u", "v", "w", "x", "y", "z", "0", "1", "2", "3", "4", "5", "6", "7", "8", "9", "_" }

LowerChar(c) == IF c \in DOMAIN UpperToLower THEN UpperToLower[c] ELSE c

ToLowerCase(s) == [i \in 1..Len(s) |-> LowerChar(s[i])]

Includes(s, sub) ==
  \E i \in 0..(Len(s) - Len(sub)) : SubSeq(s, i + 1, i + Len(sub)) = sub

StartsWith(s, pre) ==
  Len(pre) <= Len(s) /\ SubSeq(s, 1, Len(pre)) = pre

EndsWith(s, suf) ==
  Len(suf) <= Len(s) /\ SubSeq(s, Len(s) - Len(suf) + 1, Len(s)) = suf

(***************************************************************************)
(* The repository universe: every path that may be tracked, with its       *)
(* content, the age in days of its last commit (-1: no commit known) and   *)
(* its size under two size profiles.  The tables also describe jwt.txt, a  *)
(* file without a source extension that only the scorer is given.          *)
(***************************************************************************)
Universe == { "README.md", "package.json", "src/auth.ts", "src/jwt.ts", "src/auth/jwt.ts", "src/authz.go", "lib/auth_util.py", "test/auth.test.js", "src/login.ts", "dist/auth.js", "docs/auth.md" }

PathOf ==
  ("README.md" :> <<"R","E","A","D","M","E",".","m","d">>) @@
  ("package.json" :> <<"p","a","c","k","a","g","e",".","j","s","o","n">>) @@
  ("src/auth.ts" :> <<"s","r","c","/","a","u","t","h",".","t","s">>) @@
  ("src/jwt.ts" :> <<"s","r","c","/","j","w","t",".","t","s">>) @@
  ("src/auth/jwt.ts" :> <<"s","r","c","/","a","u","t","h","/","j","w","t",".","t","s">>) @@
  ("src/authz.go" :> <<"s","r","c","/","a","u","t","h","z",".","g","o">>) @@
  ("lib/auth_util.py" :> <<"l","i","b","/","a","u","t","h","_","u","t","i","l",".","p","y">>) @@
  ("test/auth.test.js" :> <<"t","e","s","t","/","a","u","t","h",".","t","e","s","t",".","j","s">>) @@
  ("src/login.ts" :> <<"s","r","c","/","l","o","g","i","n",".","t","s">>) @@
  ("dist/auth.js" :> <<"d","i","s","t","/","a","u","t","h",".","j","s">>) @@
  ("docs/auth.md" :> <<"d","o","c","s","/","a","u","t","h",".","m","d">>) @@
  ("jwt.txt" :> <<"j","w","t",".","t","x","t">>)

ContentOf ==
  ("README.md" :> <<"I","n","t","r","o">>) @@
  ("package.json" :> <<"n","a","m","e">>) @@
  ("src/auth.ts" :> <<"a","u","t","h"," ","j","w","t">>) @@
  ("src/jwt.ts" :> <<"J","W","T">>) @@
  ("src/auth/jwt.ts" :> <<"a","u","t","h">>) @@
  ("src/authz.go" :> <<>>) @@
  ("lib/auth_util.py" :> <<"u","t","i","l">>) @@
  ("test/auth.test.js" :> <<"j","w","t">>) @@
  ("src/login.ts" :> <<"A","u","t","h">>) @@
  ("dist/auth.js" :> <<"a","u","t","h">>) @@
  ("docs/auth.md" :> <<"j","w","t">>) @@
  ("jwt.txt" :> <<>>)

AgeDaysOf ==
  ("README.md" :> 9) @@
  ("package.json" :> 99) @@
  ("src/auth.ts" :> 0) @@
  ("src/jwt.ts" :> 9) @@
  ("src/auth/jwt.ts" :> 0) @@
  ("src/authz.go" :> 99) @@
  ("lib/auth_util.py" :> -1) @@
  ("test/auth.test.js" :> 9) @@
  ("src/login.ts" :> 0) @@
  ("dist/auth.js" :> 9) @@
  ("docs/auth.md" :> 0) @@
  ("jwt.txt" :> -1)

SparseSizeOf ==
  ("README.md" :> 4) @@
  ("package.json" :> 3) @@
  ("src/auth.ts" :> 0) @@
  ("src/jwt.ts" :> 0) @@
  ("src/auth/jwt.ts" :> 0) @@
  ("src/authz.go" :> 0) @@
  ("lib/auth_util.py" :> 0) @@
  ("test/auth.test.js" :> 0) @@
  ("src/login.ts" :> 0) @@
  ("dist/auth.js" :> 0) @@
  ("docs/auth.md" :> 0) @@
  ("jwt.txt" :> 8)

DenseSizeOf ==
  ("README.md" :> 8) @@
  ("package.json" :> 4) @@
  ("src/auth.ts" :> 3) @@
  ("src/jwt.ts" :> 4) @@
  ("src/auth/jwt.ts" :> 8) @@
  ("src/authz.go" :> 3) @@
  ("lib/auth_util.py" :> 4) @@
  ("test/auth.test.js" :> 3) @@
  ("src/login.ts" :> 8) @@
  ("dist/auth.js" :> 4) @@
  ("docs/auth.md" :> 3) @@
  ("jwt.txt" :> 8)

Profiles == { "sparse", "dense" }

Questions == { "q_jwt_auth", "q_jwt", "q_none" }

QuestionText ==
  ("q_jwt_auth" :> <<"H","o","w"," ","i","s"," ","J","W","T"," ","a","u","t","h"," ","u","s","e","d","?">>) @@
  ("q_jwt" :> <<"t","h","e"," ","J","W","T">>) @@
  ("q_none" :> <<"I","s"," ","i","t"," ","o","u","t","?">>)

(***************************************************************************)
(* git ls-files / git grep list paths in index order (byte order of the    *)
(* path).                                                                  *)
(***************************************************************************)
IndexOrder ==
  << "README.md", "dist/auth.js", "docs/auth.md", "lib/auth_util.py", "package.json", "src/auth.ts", "src/auth/jwt.ts", "src/authz.go", "src/jwt.ts", "src/login.ts", "test/auth.test.js" >>

(***************************************************************************)
(* Keyword extraction                                                      *)
(***************************************************************************)
RECURSIVE MatchRuns(_, _, _)
MatchRuns(s, i, cur) ==
  IF i > Len(s)
    THEN (IF Len(cur) >= 3 THEN <<cur>> ELSE <<>>)
    ELSE IF s[i] \in WordChars
      THEN MatchRuns(s, i + 1, Append(cur, s[i]))
      ELSE (IF Len(cur) >= 3 THEN <<cur>> ELSE <<>>) \o MatchRuns(s, i + 1, <<>>)

RECURSIVE Dedupe(_)
Dedupe(s) ==
  IF s = <<>> THEN <<>>
  ELSE LET r == Dedupe(SubSeq(s, 1, Len(s) - 1))
           x == s[Len(s)]
       IN  IF \E i \in 1..Len(r) : r[i] = x THEN r ELSE Append(r, x)

IsNotStopword(w) == w \notin COMMON_STOPWORDS

\* variant: the matches are not passed through a Set
Extract_NoDedupe(q) ==
  SelectSeq(MatchRuns(ToLowerCase(q), 1, <<>>), IsNotStopword)

\* KeywordExtractor.extract / the keywords constant of reposelect.ts
Extract(q) ==
  Dedupe(SelectSeq(MatchRuns(ToLowerCase(q), 1, <<>>), IsNotStopword))

KeywordsOf == [q \in Questions |-> Extract(QuestionText[q])]

(***************************************************************************)
(* Candidate source and candidate discovery                                *)
(***************************************************************************)
SizeOf(profile, f) ==
  IF profile = "sparse" THEN SparseSizeOf[f] ELSE DenseSizeOf[f]

\* the git queries that fail in this run
VARIABLE gitFails

\* the git queries of the pipeline
GitQueries == { "ls-files", "grep", "log" }

\* variant: a failing query still yields its output
safeExec_IgnoresFailure(cmd, out) == out

\* safeExec(): the output of the query, empty when execSync throws
safeExec(cmd, out) == IF cmd \in gitFails THEN <<>> ELSE out

\* the paths of the index, in index order
lsFiles(tracked) == SelectSeq(IndexOrder, LAMBDA f : f \in tracked)

gitFiles(tracked) == safeExec("ls-files", lsFiles(tracked))

IsIgnored(f) ==
  \/ \E p \in IGNORE_PATTERNS : Includes(PathOf[f], p)
  \/ \E s \in FILE_EXCLUDE_SUFFIXES : EndsWith(PathOf[f], s)

IgnoredSet == { f \in Universe : IsIgnored(f) }

filterIgnored(files) == SelectSeq(files, LAMBDA f : f \notin IgnoredSet)

NameMatches(f, kws) ==
  \E i \in 1..Len(kws) : Includes(ToLowerCase(PathOf[f]), kws[i])

NameMatchSet ==
  [q \in Questions |-> { f \in Universe : NameMatches(f, KeywordsOf[q]) }]

byName(files, q) == SelectSeq(files, LAMBDA f : f \in NameMatchSet[q])

ContentMatches(f, kws) ==
  \E i \in 1..Len(kws) : Includes(ToLowerCase(ContentOf[f]), kws[i])

ContentMatchSet ==
  [q \in Questions |-> { f \in Universe : ContentMatches(f, KeywordsOf[q]) }]

grepCandidates(tracked, q) ==
  IF Len(KeywordsOf[q]) = 0 THEN <<>>
  ELSE safeExec("grep",
                SelectSeq(lsFiles(tracked), LAMBDA f : f \in ContentMatchSet[q]))

MatchesPattern(p, path) ==
  LET l == ToLowerCase(path)
  IN  /\ StartsWith(l, p.pre)
      /\ EndsWith(l, p.suf)
      /\ Len(l) >= Len(p.pre) + Len(p.suf)
      /\ p.exact => Len(l) = Len(p.pre)

IsMustInclude(f) ==
  \E i \in 1..Len(MUST_INCLUDE_PATTERNS) :
    MatchesPattern(MUST_INCLUDE_PATTERNS[i], PathOf[f])

MustIncludeSet == { f \in Universe : IsMustInclude(f) }

mustInclude(files) == SelectSeq(files, LAMBDA f : f \in MustIncludeSet)

Candidates(tracked, q) ==
  LET allFiles == filterIgnored(gitFiles(tracked))
  IN  Dedupe(byName(allFiles, q) \o grepCandidates(tracked, q)
             \o mustInclude(allFiles))

(***************************************************************************)
(* Relevance scoring, in units of 1/200                                    *)
(***************************************************************************)
Log10Thresholds ==
  << 1000, 1259, 1585, 1996, 2512, 3163, 3982, 5012, 6310, 7944 >>

\* floor(10 * log10(n)) for 1 <= n < 10000
Log10Deci(n) ==
  LET d == CHOOSE k \in 0..3 : 10^k <= n /\ n < 10^(k + 1)
      j == CHOOSE k \in 0..9 :
             /\ n * 1000 >= Log10Thresholds[k + 1] * 10^d
             /\ k < 9 => n * 1000 < Log10Thresholds[k + 2] * 10^d
  IN  10 * d + j

CountHits(text, kws) ==
  Cardinality({ i \in 1..Len(kws) : Includes(text, kws[i]) })

\* the number of places at which sub occurs in s
Occurrences(s, sub) ==
  Cardinality({ i \in 0..(Len(s) - Len(sub)) :
                  SubSeq(s, i + 1, i + Len(sub)) = sub })

\* variant: every occurrence of a keyword in the path is counted
filenameScore_CountsOccurrences(file, keywords) ==
  LET RECURSIVE Sum(_)
      Sum(i) == IF i = 0 THEN 0
                ELSE Occurrences(ToLowerCase(file), keywords[i]) + Sum(i - 1)
  IN  Sum(Len(keywords))

\* FileScorer.filenameScore
filenameScore(file, keywords) == CountHits(ToLowerCase(file), keywords)

nameHits(f, kws) == CountHits(ToLowerCase(PathOf[f]), kws)

contentHits(f, kws) == CountHits(ToLowerCase(ContentOf[f]), kws)

Max(a, b) == IF a >= b THEN a ELSE b

Min(a, b) == IF a <= b THEN a ELSE b

lastCommitScore(f) ==
  IF AgeDaysOf[f] < 0 THEN 0
  ELSE Max(0, Min(200, 200 - 10 * Log10Deci(1 + AgeDaysOf[f])))

\* a JavaScript number that is a score in units of 1/200, or NaN
Num(v) == [nan |-> FALSE, val |-> v]

NaN == [nan |-> TRUE, val |-> 0]

\* FileScorer.recencyScore, for a timestamp that is unknown (0) or lies
\* ageDays days before the clock (after it, when negative):
\* Math.log10 of a negative number is NaN, of 0 is -Infinity
recencyScore(known, ageDays) ==
  IF ~known THEN Num(0)
  ELSE IF 1 + ageDays < 0 THEN NaN
  ELSE IF 1 + ageDays = 0 THEN Num(200)
  ELSE Num(Max(0, Min(200, 200 - 10 * Log10Deci(1 + ageDays))))

sizePenaltyHalf(size) == Log10Deci(1 + size)

RECURSIVE LastIndexOf(_, _, _)
LastIndexOf(s, c, i) ==
  IF i = 0 THEN 0 ELSE IF s[i] = c THEN i ELSE LastIndexOf(s, c, i - 1)

extname(path) ==
  LET slash == LastIndexOf(path, "/", Len(path))
      base  == SubSeq(path, slash + 1, Len(path))
      dot   == LastIndexOf(base, ".", Len(base))
  IN  IF dot <= 1 THEN <<>> ELSE SubSeq(base, dot, Len(base))

extBonus(f) ==
  IF ToLowerCase(extname(PathOf[f])) \in SOURCE_FILE_EXTENSIONS THEN 40 ELSE 0

\* variant: rounds down
tokenEstimate_Floor(chars) == (10 * chars) \div 37

\* tokenEstimate of reposelect.ts, FileScorer.tokenEstimate: ceil(chars / 3.7)
tokenEstimate(chars) == (10 * chars + 36) \div 37

TokensOf ==
  [p \in Profiles |-> [f \in Universe |-> tokenEstimate(SizeOf(p, f))]]

Score(f, kws, profile) ==
  600 * nameHits(f, kws) + 400 * contentHits(f, kws) + lastCommitScore(f)
    - sizePenaltyHalf(SizeOf(profile, f)) + extBonus(f)

ScoreOf ==
  [q \in Questions |-> [p \in Profiles |-> [f \in Universe |->
     Score(f, KeywordsOf[q], p)]]]

\* Array.prototype.sort with (a, b) => b.score - a.score is stable:
\* an element is placed after every earlier element of equal or higher score.
RECURSIVE SortByScore(_, _)
SortByScore(s, sc) ==
  IF s = <<>> THEN <<>>
  ELSE LET r == SortByScore(SubSeq(s, 1, Len(s) - 1), sc)
           x == s[Len(s)]
           k == Cardinality({ i \in 1..Len(r) : sc[r[i]] >= sc[x] })
       IN  SubSeq(r, 1, k) \o <<x>> \o SubSeq(r, k + 1, Len(r))

\* variant: filename hits carry no weight
score_NoFilenameWeight(f, keywords, clock) ==
  LET recency == recencyScore(AgeDaysOf[f] >= 0, AgeDaysOf[f] + clock)
      size    == SizeOf("dense", f)
      total   == 400 * contentHits(f, keywords) + recency.val
                   - sizePenaltyHalf(size) + extBonus(f)
  IN  [file |-> f,
       score |-> IF recency.nan THEN NaN ELSE Num(total),
       size |-> size,
       tokens |-> tokenEstimate(size)]

\* FileScorer.score with the scanner of the universe (dense sizes) and a
\* clock that is `clock` days off the one the commit ages were taken with
score(f, keywords, clock) ==
  LET recency == recencyScore(AgeDaysOf[f] >= 0, AgeDaysOf[f] + clock)
      size    == SizeOf("dense", f)
      total   == 600 * filenameScore(PathOf[f], keywords)
                   + 400 * contentHits(f, keywords) + recency.val
                   - sizePenaltyHalf(size) + extBonus(f)
  IN  [file |-> f,
       score |-> IF recency.nan THEN NaN ELSE Num(total),
       size |-> size,
       tokens |-> tokenEstimate(size)]

\* (a, b) => b.score - a.score is negative: a sorts before b
SortsBefore(a, b) == ~a.score.nan /\ ~b.score.nan /\ a.score.val > b.score.val

\* the stable sort of scored files by SortsBefore
RECURSIVE StableSort(_)
StableSort(s) ==
  IF s = <<>> THEN <<>>
  ELSE LET r == StableSort(SubSeq(s, 1, Len(s) - 1))
           x == s[Len(s)]
           k == Cardinality({ i \in 1..Len(r) : ~SortsBefore(x, r[i]) })
       IN  SubSeq(r, 1, k) \o <<x>> \o SubSeq(r, k + 1, Len(r))

\* every ordering of the elements of s
Orderings(s) ==
  { [i \in 1..Len(s) |-> s[p[i]]] :
      p \in { m \in [1..Len(s) -> 1..Len(s)] :
                \A i, j \in 1..Len(s) : m[i] = m[j] => i = j } }

\* FileScorer.scoreMany: map(score) then Array.prototype.sort.  With a NaN
\* score the comparator returns NaN for some pairs and is not a consistent
\* comparator: the order is then implementation-defined.
scoreMany(files, keywords, clock) ==
  LET scored == [i \in 1..Len(files) |-> score(files[i], keywords, clock)]
  IN  IF \E i \in 1..Len(scored) : scored[i].score.nan
        THEN Orderings(scored)
        ELSE { StableSort(scored) }

\* the score when `git log` fails: lastCommitScore() returns 0
ScoreWithoutLog(f, kws, profile) == Score(f, kws, profile) - lastCommitScore(f)

ScoreOfWithoutLog ==
  [q \in Questions |-> [p \in Profiles |-> [f \in Universe |->
     ScoreWithoutLog(f, KeywordsOf[q], p)]]]

\* the scores that main() computes in this run
RankingScores(q, profile) ==
  IF "log" \in gitFails THEN ScoreOfWithoutLog[q][profile]
  ELSE ScoreOf[q][profile]

Ranked(tracked, q, profile) ==
  SortByScore(Candidates(tracked, q), RankingScores(q, profile))

(***************************************************************************)
(* External agent runtimes.  A behaviour is what an agent's runtime does   *)
(* when it is invoked in this run.                                         *)
(***************************************************************************)
Agents == { "factory", "opencode" }

AgentPaths == { "src/auth.ts", "missing.ts" }

\* an answer that lists more files than the selection floor
AgentLongList == SubSeq(IndexOrder, 1, MIN_SELECTED_FILES + 1)

\* paths that resolve to an existing file above the repository root
OutsideFiles == { "../outside.txt" }

OutsideSize == 4

\* an answer that names a file outside the repository
AgentEscapingList == << "../outside.txt" >>

AgentFileLists ==
  UNION { [1..n -> AgentPaths] : n \in 0..MaxAgentFiles }
    \cup { AgentLongList, AgentEscapingList }

FailureKinds(agent) ==
  { "unavailable", "nonzero", "text", "malformed", "nofiles" }
    \cup (IF agent = "factory" THEN { "nokey" } ELSE {})

Behaviours(agent) ==
  { [kind |-> k, files |-> <<>>, conf |-> "num"] : k \in FailureKinds(agent) }
  \cup [kind : { "object" }, files : AgentFileLists, conf : { "num", "str" }]

Thrown == [ok |-> FALSE, files |-> <<>>, reasoning |-> "", confidence |-> "num"]

\* FactoryAgent.selectFiles / OpenCodeAgent.selectFiles with parseResponse
selectFiles(agent, b) ==
  IF b.kind = "unavailable" THEN Thrown
  ELSE IF agent = "factory" /\ b.kind = "nokey" THEN Thrown
  ELSE IF b.kind = "nonzero" THEN Thrown
  ELSE IF b.kind = "text" THEN Thrown
  ELSE IF b.kind = "malformed" THEN Thrown
  ELSE IF b.kind = "nofiles" THEN Thrown
  ELSE [ok |-> TRUE, files |-> b.files,
        reasoning |-> "No reasoning provided",
        confidence |-> b.conf]

(***************************************************************************)
(* Packer: the repomix subprocess either exits with a status or has none   *)
(* (killed by a signal, or not spawned).                                   *)
(***************************************************************************)
NoStatus == -1

NotExited == -1

SpawnStatuses == { 0, 1, NoStatus }

\* process.exit(result.status ?? 1) when (result.status ?? 0) !== 0
PackExitCode(status) ==
  LET coalesced == IF status = NoStatus THEN 0 ELSE status
  IN  IF coalesced # 0 THEN (IF status = NoStatus THEN 1 ELSE status) ELSE 0

(***************************************************************************)
(* State                                                                   *)
(***************************************************************************)
VARIABLES
  cli,            \* entry point: "reposelect" or "agent"
  args,           \* parsed command line: agent, budget, smart, dryRun
  question,       \* args._[0]
  tracked,        \* paths in the git index; each exists in the work tree
  profile,        \* size profile of the work tree
  agentEnv,       \* agent CLI: behaviour of each agent runtime of the chain
  pc,             \* position in main() / run()
  agentIdx,       \* index into agentsToTry
  attempts,       \* history: agent invocations and what they returned
  selectedFiles,  \* run(): null or the files of the last assigning attempt
  reasoning,      \* run()
  source,         \* run()
  ranked,         \* main(): candidates sorted by score
  idx,            \* main(): position of the selection loop in ranked
  selected,       \* main(): files admitted so far
  usedTokens,     \* main(): estimated tokens of selected
  packed,         \* history: path lists handed to the packer
  spawned,        \* history: what became of each repomix subprocess
  instructionFile, \* repomix-instruction.md: NoFile or the question it embeds
  exitCode,       \* process exit code, NotExited while running
  successReported, \* the packer printed its success line
  call,           \* library: the function called and its arguments
  ret             \* library: what the call returned

vars ==
  << cli, args, question, tracked, profile, agentEnv, gitFails, pc, agentIdx,
     attempts,
     selectedFiles, reasoning, source, ranked, idx, selected, usedTokens,
     packed, spawned, instructionFile, exitCode, successReported, call, ret >>

libVars == << call, ret >>

inputVars == << cli, args, question, tracked, profile, agentEnv, gitFails >>

chainVars == << agentIdx, selectedFiles, reasoning, source >>

selectVars == << ranked, idx, selected, usedTokens >>

EnvsOf ==
  [D \in SUBSET Agents |->
     { e \in [D -> Behaviours("factory")] : \A a \in D : e[a] \in Behaviours(a) }]

Null == [isNull |-> TRUE, files |-> <<>>]

Some(files) == [isNull |-> FALSE, files |-> files]

\* fs.existsSync(path.join(repo, f))
OnDisk(f) == f \in tracked \/ f \in OutsideFiles

\* variant: the fixed priority list starts with opencode
AgentsToTry_OpencodeFirst(a) ==
  IF a.smart \/ a.agent = "none"
    THEN << "opencode", "factory" >>
    ELSE << a.agent >>

\* run() lines 49-51
AgentsToTry(a) ==
  IF a.smart \/ a.agent = "none"
    THEN << "factory", "opencode" >>
    ELSE << a.agent >>

agentsToTry == AgentsToTry(args)

ChainAgents(a) == { AgentsToTry(a)[i] : i \in 1..Len(AgentsToTry(a)) }

\* work trees: the universe with at most n paths absent
Repos(n) == { S \in SUBSET Universe : Cardinality(Universe \ S) <= n }

\* no library call is in progress
NoCall == [fn |-> "none"]

Pending == [status |-> "pending"]

Returned(v) == [status |-> "returned", value |-> v]

InitCommon ==
  /\ attempts = <<>>
  /\ agentIdx = 1
  /\ selectedFiles = Null
  /\ reasoning = ""
  /\ source = ""
  /\ ranked = <<>>
  /\ idx = 1
  /\ selected = <<>>
  /\ usedTokens = 0
  /\ packed = <<>>
  /\ spawned = <<>>
  /\ exitCode = NotExited
  /\ successReported = FALSE

\* repomix-instruction.md does not exist
NoFile == "absent"

\* what a run can find at <repo>/repomix-instruction.md: nothing, or the file
\* that an earlier packing run on the same repository wrote for its question
InstructionFiles == { NoFile } \cup Questions

InitReposelect ==
  /\ cli = "reposelect"
  /\ args \in [agent : Agents \cup { "none" }, budget : 0..MaxBudget,
               smart : { FALSE }, dryRun : { FALSE }]
  /\ question \in Questions
  /\ tracked \in Repos(IF args.agent = "none" THEN MaxAbsent
                         ELSE MaxAbsentWithAgent)
  /\ gitFails \in IF args.agent = "none" /\ tracked \in Repos(MaxAbsentWithFaults)
                    THEN SUBSET GitQueries ELSE { {} }
  /\ profile \in Profiles
  /\ instructionFile \in IF args.agent = "none" /\ gitFails = {}
                              /\ tracked = Universe
                           THEN InstructionFiles ELSE { NoFile }
  /\ agentEnv = << >>
  /\ pc = "main"

InitAgent ==
  /\ cli = "agent"
  /\ args \in [agent : Agents \cup { "none" }, budget : { MaxBudget },
               smart : BOOLEAN, dryRun : BOOLEAN]
  /\ question = "q_jwt_auth"
  /\ tracked = Universe
  /\ profile = "dense"
  /\ agentEnv \in EnvsOf[ChainAgents(args)]
  /\ gitFails = {}
  /\ instructionFile = NoFile
  /\ pc = "run"

Init ==
  /\ InitReposelect \/ InitAgent
  /\ InitCommon
  /\ call = NoCall
  /\ ret = NoCall

(***************************************************************************)
(* Packing (packWithRepomix / Packer.pack): record the call, run repomix,  *)
(* exit with its status on failure, report success otherwise.              *)
(***************************************************************************)
\* the instruction file is written only when none exists
ensureInstructionFile(file, q) == IF file = NoFile THEN q ELSE file

Pack(files, status) ==
  /\ packed' = Append(packed, files)
  /\ instructionFile' = ensureInstructionFile(instructionFile, question)
  /\ spawned' = Append(spawned, status)
  /\ exitCode' = PackExitCode(status)
  /\ successReported' = (PackExitCode(status) = 0)
  /\ pc' = "done"

\* Packer.calculateTotalTokens / the reduce at the top of packWithRepomix:
\* the estimated tokens of a path list; a path that cannot be stat'ed adds 0
RECURSIVE calculateTotalTokens(_)
calculateTotalTokens(files) ==
  IF files = <<>> THEN 0
  ELSE (IF Head(files) \in tracked THEN TokensOf[profile][Head(files)]
        ELSE IF Head(files) \in OutsideFiles THEN tokenEstimate(OutsideSize)
        ELSE 0)
         + calculateTotalTokens(Tail(files))

(***************************************************************************)
(* src/reposelect.ts                                                       *)
(***************************************************************************)
\* variant: an agent is constructed even when none was requested
agentOf_DefaultFactory(a) == IF a.agent = "none" THEN "factory" ELSE a.agent

\* tryAgentSelection() lines 142, 153-156: the agent that is constructed
agentOf(a) == a.agent

\* variant: the agent's list is handed on without the existence filter
validFilesOf_Unfiltered(files) == files

\* tryAgentSelection() lines 171-174
validFilesOf(files) == SelectSeq(files, OnDisk)

\* variant: the empty-selection test is missing
selectionUsable_NoEmptyTest(result) == result.ok

\* tryAgentSelection() lines 162-179, 199-203: the agent selection is used
\* iff selectFiles() did not throw and some returned path exists
selectionUsable(result) == result.ok /\ Len(validFilesOf(result.files)) # 0

\* main() line 300 with tryAgentSelection()
TryAgentSelection ==
  /\ cli = "reposelect"
  /\ pc = "main"
  /\ IF agentOf(args) = "none"
       THEN /\ pc' = "discover"
            /\ UNCHANGED << attempts, packed, spawned, instructionFile, exitCode,
                            successReported >>
       ELSE \E b \in Behaviours(agentOf(args)), status \in SpawnStatuses :
              LET result == selectFiles(agentOf(args), b)
              IN  /\ attempts' =
                       Append(attempts, [agent |-> agentOf(args),
                                         kind |-> b.kind, files |-> b.files])
                  /\ IF selectionUsable(result)
                       THEN Pack(validFilesOf(result.files), status)
                       ELSE /\ pc' = "discover"
                            /\ UNCHANGED << packed, spawned, instructionFile, exitCode,
                                    successReported >>
  /\ UNCHANGED << libVars, inputVars, chainVars, selectVars >>

\* main() lines 304-352: in-scope files, candidate pool, ranking
Discover ==
  /\ cli = "reposelect"
  /\ pc = "discover"
  /\ ranked' = Ranked(tracked, question, profile)
  /\ selected' = <<>>
  /\ usedTokens' = 0
  /\ idx' = 1
  /\ pc' = "select"
  /\ UNCHANGED << libVars, inputVars, chainVars, attempts, packed, spawned, instructionFile,
                  exitCode, successReported >>

\* variant: the floor test is off by one (> instead of >=)
LoopBody_FloorOffByOne(sel, used, file, tokens, budget) ==
  IF used + tokens > budget /\ Len(sel) > MIN_SELECTED_FILES
    THEN [selected |-> sel, usedTokens |-> used, break |-> TRUE]
    ELSE [selected |-> Append(sel, file), usedTokens |-> used + tokens,
          break |-> FALSE]

\* variant: no minimum floor
LoopBody_NoFloor(sel, used, file, tokens, budget) ==
  IF used + tokens > budget
    THEN [selected |-> sel, usedTokens |-> used, break |-> TRUE]
    ELSE [selected |-> Append(sel, file), usedTokens |-> used + tokens,
          break |-> FALSE]

\* variant: the budget test ignores the candidate's own tokens
LoopBody_IgnoresCandidate(sel, used, file, tokens, budget) ==
  IF used > budget /\ Len(sel) >= MIN_SELECTED_FILES
    THEN [selected |-> sel, usedTokens |-> used, break |-> TRUE]
    ELSE [selected |-> Append(sel, file), usedTokens |-> used + tokens,
          break |-> FALSE]

\* variant: a candidate that does not fit is skipped (continue, not break)
LoopBody_Skip(sel, used, file, tokens, budget) ==
  IF used + tokens > budget /\ Len(sel) >= MIN_SELECTED_FILES
    THEN [selected |-> sel, usedTokens |-> used, break |-> FALSE]
    ELSE [selected |-> Append(sel, file), usedTokens |-> used + tokens,
          break |-> FALSE]

\* variant: the floor is 5 files
LoopBody_FloorFive(sel, used, file, tokens, budget) ==
  IF used + tokens > budget /\ Len(sel) >= 5
    THEN [selected |-> sel, usedTokens |-> used, break |-> TRUE]
    ELSE [selected |-> Append(sel, file), usedTokens |-> used + tokens,
          break |-> FALSE]

\* main() lines 355-357: the body of the selection loop
LoopBody(sel, used, file, tokens, budget) ==
  IF used + tokens > budget /\ Len(sel) >= MIN_SELECTED_FILES
    THEN [selected |-> sel, usedTokens |-> used, break |-> TRUE]
    ELSE [selected |-> Append(sel, file), usedTokens |-> used + tokens,
          break |-> FALSE]

\* main() lines 354-358: one iteration of the selection loop
SelectStep ==
  /\ cli = "reposelect"
  /\ pc = "select"
  /\ IF idx > Len(ranked)
       THEN /\ pc' = "finish"
            /\ UNCHANGED << idx, selected, usedTokens >>
       ELSE LET file   == ranked[idx]
                tokens == TokensOf[profile][file]
                r      == LoopBody(selected, usedTokens, file, tokens,
                                   args.budget)
            IN  /\ selected' = r.selected
                /\ usedTokens' = r.usedTokens
                /\ idx' = IF r.break THEN idx ELSE idx + 1
                /\ pc' = IF r.break THEN "finish" ELSE "select"
  /\ UNCHANGED << libVars, inputVars, chainVars, ranked, attempts, packed, spawned, instructionFile,
                  exitCode, successReported >>

\* variant: a selection of one file is treated as no selection
noRelevantFiles_AtMostOne(sel) == Len(sel) <= 1

\* main() line 360: the test for the no-candidates error
noRelevantFiles(sel) == Len(sel) = 0

\* main() lines 360-365
Finish ==
  /\ cli = "reposelect"
  /\ pc = "finish"
  /\ IF noRelevantFiles(selected)
       THEN /\ exitCode' = 2
            /\ pc' = "done"
            /\ UNCHANGED << packed, spawned, instructionFile, successReported >>
       ELSE \E status \in SpawnStatuses : Pack(selected, status)
  /\ UNCHANGED << libVars, inputVars, chainVars, selectVars, attempts >>

(***************************************************************************)
(* The agent-only entry point: run()                                       *)
(***************************************************************************)
\* variant: the loop is left only through break
loopEnds_OnlyOnBreak(broke, i, n) == broke

\* the for-of loop over agentsToTry ends on break or after the last element
loopEnds(broke, i, n) == broke \/ i + 1 > n

\* one iteration of the loop over agentsToTry
AgentAttempt ==
  /\ cli = "agent"
  /\ pc = "run"
  /\ agentIdx <= Len(agentsToTry)
  /\ LET agentName == agentsToTry[agentIdx]
         b         == agentEnv[agentName]
         result    == selectFiles(agentName, b)
         assigned  == result.ok
         broke     == result.ok /\ result.confidence = "num"
     IN  /\ attempts' = Append(attempts, [agent |-> agentName, kind |-> b.kind,
                                      files |-> b.files])
         /\ selectedFiles' =
              IF assigned THEN Some(result.files) ELSE selectedFiles
         /\ reasoning' = IF assigned THEN result.reasoning ELSE reasoning
         /\ source' = IF assigned THEN agentName ELSE source
         /\ agentIdx' = IF broke THEN agentIdx ELSE agentIdx + 1
         /\ pc' = IF loopEnds(broke, agentIdx, Len(agentsToTry))
                    THEN "afterLoop" ELSE "run"
  /\ UNCHANGED << libVars, inputVars, selectVars, packed, spawned, instructionFile, exitCode,
                  successReported >>

\* run() after the loop: give up, preview, or pack
AfterLoop ==
  /\ cli = "agent"
  /\ pc = "afterLoop"
  /\ IF selectedFiles.isNull \/ Len(selectedFiles.files) = 0
       THEN /\ exitCode' = 1
            /\ pc' = "done"
            /\ UNCHANGED << packed, spawned, instructionFile, successReported >>
       ELSE IF args.dryRun
         THEN /\ exitCode' = 0
              /\ pc' = "done"
              /\ UNCHANGED << packed, spawned, instructionFile, successReported >>
         ELSE \E status \in SpawnStatuses : Pack(selectedFiles.files, status)
  /\ UNCHANGED << libVars, inputVars, chainVars, selectVars, attempts >>

Next ==
  \/ TryAgentSelection
  \/ Discover
  \/ SelectStep
  \/ Finish
  \/ AgentAttempt
  \/ AfterLoop

Spec == Init /\ [][Next]_vars

TypeOK ==
  /\ cli \in { "reposelect", "agent", "lib" }
  /\ pc \in { "main", "discover", "select", "finish", "run", "afterLoop",
              "done", "lib" }
  /\ tracked \subseteq Universe
  /\ instructionFile \in InstructionFiles
  /\ usedTokens \in Nat
  /\ exitCode \in { NotExited, 0, 1, 2 }

(***************************************************************************)
(* The library functions (src/lib), each called on its own: the call is    *)
(* drawn from a bounded set of arguments, the action applies the function. *)
(***************************************************************************)
\* words that questions are made of
LibWords ==
  << <<"T","h","e">>,
     <<"J","W","T">>,
     <<"j","w","t">>,
     <<"i","s">>,
     <<"a","u","t","h","_","2">>,
     <<"r","e","-","u","s","e">>,
     <<"A","u","t","h","?">>,
     <<"x","9">> >>

RECURSIVE JoinWords(_)
JoinWords(ws) ==
  IF ws = <<>> THEN <<>>
  ELSE IF Len(ws) = 1 THEN LibWords[ws[1]]
  ELSE LibWords[ws[1]] \o <<" ">> \o JoinWords(Tail(ws))

LibQuestions ==
  { JoinWords(ws) :
      ws \in UNION { [1..n -> 1..Len(LibWords)] : n \in 0..MaxWords } }

ExtractCalls == [fn : { "extract" }, question : LibQuestions]

\* paths given to the scorer: those of the universe and one that repeats a
\* keyword
ScorerPaths ==
  { PathOf[f] : f \in Universe } \cup { <<"A","u","t","h","/","a","u","t","h",".","t","s">> }

LibKeywords == { <<"a","u","t","h">>, <<"j","w","t">>, <<"s","r","c">>, <<"x","y","z">> }

\* keyword lists without repetition, as the extractor returns them
KeywordLists ==
  { ks \in UNION { [1..n -> LibKeywords] : n \in 0..MaxKeywords } :
      \A i, j \in 1..Len(ks) : ks[i] = ks[j] => i = j }

FilenameScoreCalls ==
  [fn : { "filenameScore" }, file : ScorerPaths, keywords : KeywordLists]

TokenEstimateCalls ==
  [fn : { "tokenEstimate" }, bytes : (0..MaxSize) \cup { 3700, 7400 }]

RecencyScoreCalls ==
  [fn : { "recencyScore" }, known : BOOLEAN,
   ageDays : (0 - MaxSkewDays)..MaxAgeDays]

\* the files handed to scoreMany
ScorerFiles ==
  { "src/auth.ts", "docs/auth.md", "src/jwt.ts", "README.md",
    "lib/auth_util.py", "jwt.txt" }

ScorerFileLists ==
  { fs \in UNION { [1..n -> ScorerFiles] : n \in 0..MaxScored } :
      \A i, j \in 1..Len(fs) : fs[i] = fs[j] => i = j }

\* the clock of the run against the clock the commit ages were taken with
ClockOffsets == { 0, 0 - MaxSkewDays }

ScoreManyCalls ==
  [fn : { "scoreMany" }, files : ScorerFileLists, keywords : KeywordLists,
   clock : ClockOffsets]

\* characters of an agent's raw response: braces, the members of a JSON
\* object with a files array ("a": files list A, "b": files list B), and
\* any other character ("x").  "{a}" and "{b}" are the well-formed objects
\* with a files array, "{}" is the well-formed object without one.
ResponseAlphabet == { "{", "}", "a", "b", "x" }

\* String.prototype.match(/\{[\s\S]*\}/): from the first "{" to the last "}"
regexMatch(s) ==
  LET opens  == { i \in 1..Len(s) : s[i] = "{" }
      first  == IF opens = {} THEN 0
                ELSE CHOOSE i \in opens : \A j \in opens : i <= j
      closes == { i \in 1..Len(s) : s[i] = "}" /\ i > first }
      last   == IF closes = {} THEN 0
                ELSE CHOOSE i \in closes : \A j \in closes : i >= j
  IN  IF first = 0 \/ last = 0 THEN [found |-> FALSE, text |-> <<>>]
      ELSE [found |-> TRUE, text |-> SubSeq(s, first, last)]

\* JSON.parse followed by the Array.isArray(parsed.files) test
JSONparse(text) ==
  IF text \in { <<"{", "a", "}">>, <<"{", "b", "}">> }
    THEN [ok |-> TRUE, files |-> text[2]]
    ELSE [ok |-> FALSE, files |-> ""]

\* OpenCodeAgent.parseResponse / FactoryAgent.parseResponse
parseResponse(output) ==
  LET jsonMatch == regexMatch(output)
  IN  IF ~jsonMatch.found THEN [ok |-> FALSE, files |-> ""]
      ELSE JSONparse(jsonMatch.text)

ParseResponseCalls ==
  [fn : { "parseResponse" },
   output : UNION { [1..n -> ResponseAlphabet] : n \in 0..MaxResponseLen }]

LibCalls ==
  ExtractCalls \cup FilenameScoreCalls \cup TokenEstimateCalls
    \cup RecencyScoreCalls \cup ScoreManyCalls \cup ParseResponseCalls

\* the program variables while a library function is exercised on its own
InitLib ==
  /\ cli = "lib"
  /\ args = [agent |-> "none", budget |-> 0, smart |-> FALSE, dryRun |-> FALSE]
  /\ question = "q_none"
  /\ tracked = {}
  /\ profile = "dense"
  /\ agentEnv = << >>
  /\ gitFails = {}
  /\ instructionFile = NoFile
  /\ pc = "lib"
  /\ InitCommon
  /\ call \in LibCalls
  /\ ret = Pending

progVars ==
  << inputVars, chainVars, selectVars, pc, attempts, packed, spawned, instructionFile,
     exitCode, successReported >>

ExtractCall ==
  /\ call.fn = "extract"
  /\ ret = Pending
  /\ ret' = Returned(Extract(call.question))
  /\ UNCHANGED << call, progVars >>

FilenameScoreCall ==
  /\ call.fn = "filenameScore"
  /\ ret = Pending
  /\ ret' = Returned(filenameScore(call.file, call.keywords))
  /\ UNCHANGED << call, progVars >>

TokenEstimateCall ==
  /\ call.fn = "tokenEstimate"
  /\ ret = Pending
  /\ ret' = Returned(tokenEstimate(call.bytes))
  /\ UNCHANGED << call, progVars >>

RecencyScoreCall ==
  /\ call.fn = "recencyScore"
  /\ ret = Pending
  /\ ret' = Returned(recencyScore(call.known, call.ageDays))
  /\ UNCHANGED << call, progVars >>

ScoreManyCall ==
  /\ call.fn = "scoreMany"
  /\ ret = Pending
  /\ \E sorted \in scoreMany(call.files, call.keywords, call.clock) :
       ret' = Returned(sorted)
  /\ UNCHANGED << call, progVars >>

ParseResponseCall ==
  /\ call.fn = "parseResponse"
  /\ ret = Pending
  /\ ret' = Returned(parseResponse(call.output))
  /\ UNCHANGED << call, progVars >>

NextLib ==
  \/ ParseResponseCall
  \/ ExtractCall
  \/ FilenameScoreCall
  \/ TokenEstimateCall
  \/ RecencyScoreCall
  \/ ScoreManyCall

SpecLib == InitLib /\ [][NextLib]_vars

(***************************************************************************)
(* Properties                                                              *)
(***************************************************************************)
RECURSIVE SumTokens(_, _)
SumTokens(files, p) ==
  IF files = <<>> THEN 0
  ELSE TokensOf[p][Head(files)] + SumTokens(Tail(files), p)

Range(s) == { s[i] : i \in 1..Len(s) }

\* the selection loop has ended and its result stands
SelectionFinal == cli = "reposelect" /\ pc = "finish"

\* C1: in every state of the selection loop, the estimated tokens of the
\* selected files exceed the budget only if at most 8 files are selected.
C1_OvershootOnlyWithinFloor ==
  /\ usedTokens = SumTokens(selected, profile)
  /\ SumTokens(selected, profile) > args.budget
       => Len(selected) <= MIN_SELECTED_FILES

C1_Witness ==
  /\ pc = "select"
  /\ Len(selected) = MIN_SELECTED_FILES
  /\ SumTokens(selected, profile) > args.budget
  /\ idx <= Len(ranked)

\* C2: the final selection has at least min(8, poolSize) files, for every
\* pool and every budget, 0 included.
C2_FloorGuarantee ==
  SelectionFinal =>
    Len(selected) >= Min(MIN_SELECTED_FILES,
                         Cardinality(Range(Candidates(tracked, question))))

C2_Witness ==
  /\ SelectionFinal
  /\ args.budget = 0
  /\ Len(ranked) > MIN_SELECTED_FILES
  /\ Len(selected) = MIN_SELECTED_FILES
  /\ usedTokens > 0

C4_PrefixAndHalt ==
  /\ selected = SubSeq(ranked, 1, Len(selected))
  /\ SelectionFinal =>
       /\ \A i \in 1..(Len(ranked) - 1) :
            RankingScores(question, profile)[ranked[i]]
              >= RankingScores(question, profile)[ranked[i + 1]]
       /\ Len(selected) < Len(ranked) =>
            /\ Len(selected) >= MIN_SELECTED_FILES
            /\ usedTokens + TokensOf[profile][ranked[Len(selected) + 1]]
                 > args.budget

C4_Witness ==
  /\ SelectionFinal
  /\ \E j \in (Len(selected) + 2)..Len(ranked) :
       usedTokens + TokensOf[profile][ranked[j]] <= args.budget

\* C5: every in-scope path that matches an always-include pattern is in the
\* final selection handed to the packer.
C5_AlwaysIncludeSelected ==
  SelectionFinal =>
    \A f \in (tracked \ IgnoredSet) \cap MustIncludeSet : f \in Range(selected)

\* an attempt that the controller must treat as failed: the agent threw
\* (unavailable runtime, missing key, non-zero exit, unparsable response,
\* missing files array) or returned no path that exists
AttemptFailed(a) ==
  a.kind # "object" \/ \A i \in 1..Len(a.files) : ~OnDisk(a.files[i])

\* C6: in reposelect.ts a failed agent attempt is followed by the
\* deterministic pipeline; the failure itself never ends the run.
C6_FallbackToPipeline ==
  [][(cli = "reposelect" /\ pc = "main"
        /\ Len(attempts') = 1 /\ AttemptFailed(attempts'[1]))
       => (pc' = "discover" /\ exitCode' = NotExited /\ packed' = <<>>)]_vars

C6_Witness ==
  /\ SelectionFinal
  /\ Len(attempts) = 1
  /\ attempts[1].kind = "object"
  /\ attempts[1].files # <<>>
  /\ AttemptFailed(attempts[1])
  /\ Len(selected) > 0

\* a failure in the sense of the chain: the agent threw or returned an
\* empty files list
ChainFailure(a) == a.kind # "object" \/ a.files = <<>>

\* C7: in the agent chain, whenever an attempt fails and a later agent
\* remains, that agent is tried before the controller gives up.
C7_ChainAdvancesOnEveryFailure ==
  (cli = "agent" /\ pc \in { "afterLoop", "done" }) =>
    \A k \in 1..Len(attempts) :
      (ChainFailure(attempts[k]) /\ k < Len(agentsToTry))
        => Len(attempts) > k

\* C8: every path list handed to the packer is non-empty and consists of
\* paths that exist under the repository root.
C8_PackerInputValid ==
  \A i \in 1..Len(packed) :
    /\ packed[i] # <<>>
    /\ \A j \in 1..Len(packed[i]) : packed[i][j] \in tracked

\* a response that validates: a non-empty files list of existing paths
Validates(agent, b) ==
  /\ selectFiles(agent, b).ok
  /\ b.files # <<>>
  /\ \A i \in 1..Len(b.files) : OnDisk(b.files[i])

\* C9: if every agent before agent i fails and agent i is the first whose
\* response validates, the controller succeeds with source = agent i and
\* exactly agent i's files, in the returned order.
C9_FirstValidAgentWins ==
  (cli = "agent" /\ pc \in { "afterLoop", "done" }) =>
    \A i \in 1..Len(agentsToTry) :
      ( /\ Validates(agentsToTry[i], agentEnv[agentsToTry[i]])
        /\ \A j \in 1..(i - 1) :
             ~Validates(agentsToTry[j], agentEnv[agentsToTry[j]]) )
        => /\ source = agentsToTry[i]
           /\ selectedFiles = Some(agentEnv[agentsToTry[i]].files)

NoAgentRequested == args.agent = "none" /\ ~args.smart

\* C10 as stated: in every entry point, if no agent is requested then no
\* agent is ever invoked.
C10_NoAgentRequestedNoAttempt ==
  NoAgentRequested => attempts = <<>>

\* C10 amended: in reposelect.ts, if no agent is requested then no agent is
\* ever invoked and the run goes straight through the deterministic
\* pipeline (the agent-only entry point always enters the controller).
C10_ReposelectNoAgentNoAttempt ==
  (cli = "reposelect" /\ NoAgentRequested) =>
    /\ attempts = <<>>
    /\ pc \in { "main", "discover", "select", "finish", "done" }
    /\ pc = "done" =>
         \/ exitCode = 2 /\ packed = <<>> /\ selected = <<>>
         \/ packed = << selected >> /\ selected # <<>>

C10_Witness ==
  /\ cli = "reposelect"
  /\ NoAgentRequested
  /\ pc = "done"
  /\ packed = << selected >>
  /\ Len(selected) > MIN_SELECTED_FILES

\* the agent of reposelect.ts returned a selection the controller validated
AgentSucceeded ==
  /\ cli = "reposelect"
  /\ Len(attempts) = 1
  /\ ~AttemptFailed(attempts[1])

C12_PackerFailureFatal ==
  \A i \in 1..Len(spawned) :
    spawned[i] # 0 => (exitCode \notin { 0, NotExited } /\ ~successReported)

\* the pipeline of reposelect.ts ran to its end (no agent selection stood)
PipelineEnded == cli = "reposelect" /\ pc = "done" /\ ~AgentSucceeded

\* C13: the deterministic pipeline ends in the no-candidates error (exit
\* code 2, packer not invoked) if and only if the candidate pool is empty;
\* with no keyword and no always-include match in scope it always does.
C13_NoCandidatesIffEmptyPool ==
  PipelineEnded =>
    /\ (exitCode = 2 /\ packed = <<>>)
          <=> (Candidates(tracked, question) = <<>>)
    /\ (KeywordsOf[question] = <<>>
          /\ (tracked \ IgnoredSet) \cap MustIncludeSet = {})
          => (exitCode = 2 /\ packed = <<>>)

C13_Witness ==
  /\ PipelineEnded
  /\ exitCode = 2
  /\ packed = <<>>
  /\ tracked # {}

\* run(): the loop iteration of attempt k ended in the catch branch, or the
\* agent returned an empty files list
ChainAttemptFailed(k) ==
  LET b == agentEnv[attempts[k].agent]
  IN  \/ ~selectFiles(attempts[k].agent, b).ok
      \/ b.conf = "str"
      \/ b.files = <<>>

\* C14: in the agent-only entry point, when every agent of the chain has
\* been tried and every attempt failed, the run ends with a non-zero exit
\* code and the packer is never invoked.
C14_ExhaustionIsFatal ==
  (cli = "agent" /\ pc = "done"
     /\ Len(attempts) = Len(agentsToTry)
     /\ \A k \in 1..Len(attempts) : ChainAttemptFailed(k))
    => (exitCode \notin { 0, NotExited } /\ packed = <<>>)

\* C15: in agent mode, as in naive mode, the estimated tokens of the files
\* handed to the packer exceed the budget only if at most 8 files are
\* handed over.
C15_AgentModeRespectsBudget ==
  (cli = "agent" \/ AgentSucceeded) =>
    \A i \in 1..Len(packed) :
      calculateTotalTokens(packed[i]) > args.budget
        => Len(packed[i]) <= MIN_SELECTED_FILES

\* w is a token of the lower-cased question at position p: a maximal run
\* of [a-z0-9_] characters
TokenAt(q, p, w) ==
  LET l == ToLowerCase(q)
  IN  /\ p + Len(w) - 1 <= Len(l)
      /\ SubSeq(l, p, p + Len(w) - 1) = w
      /\ p > 1 => l[p - 1] \notin WordChars
      /\ p + Len(w) <= Len(l) => l[p + Len(w)] \notin WordChars

FirstTokenPos(q, w) ==
  CHOOSE p \in 1..Len(q) :
    TokenAt(q, p, w) /\ \A r \in 1..(p - 1) : ~TokenAt(q, r, w)

\* C17: every keyword returned by the extractor is a token of the question,
\* lower-case, made of [a-z0-9_] only, at least 3 characters long, not a
\* stopword, and occurs once; keywords are in first-seen order; every
\* qualifying token of the question is returned (none: the empty list).
C17_KeywordSetInvariant ==
  (call.fn = "extract" /\ ret # Pending) =>
    LET q   == call.question
        kws == ret.value
    IN  /\ \A i \in 1..Len(kws) :
             /\ Len(kws[i]) >= 3
             /\ \A j \in 1..Len(kws[i]) : kws[i][j] \in WordChars
             /\ kws[i] \notin COMMON_STOPWORDS
             /\ \E p \in 1..Len(q) : TokenAt(q, p, kws[i])
             /\ \A j \in 1..Len(kws) : kws[j] = kws[i] => j = i
        /\ \A i, j \in 1..Len(kws) :
             i < j => FirstTokenPos(q, kws[i]) < FirstTokenPos(q, kws[j])
        /\ \A p \in 1..Len(q), n \in 3..Len(q) :
             LET w == SubSeq(ToLowerCase(q), p, p + n - 1)
             IN  (p + n - 1 <= Len(q) /\ TokenAt(q, p, w)
                    /\ (\A k \in 1..n : w[k] \in WordChars)
                    /\ w \notin COMMON_STOPWORDS)
                   => \E i \in 1..Len(kws) : kws[i] = w

C17_Witness ==
  /\ call.fn = "extract"
  /\ ret # Pending
  /\ Len(ret.value) = 2
  /\ \E p, r \in 1..Len(call.question) :
       p # r /\ TokenAt(call.question, p, ret.value[1])
             /\ TokenAt(call.question, r, ret.value[1])

\* the sub-list of ks at the positions in S
SubList(ks, S) == SelectSeq(ks, LAMBDA k : \E i \in S : ks[i] = k)

\* C18: filenameScore(P, K) lies between 0 and |K|, is the number of
\* keywords of K that occur in the lower-cased path (each counted once,
\* however often it occurs), and is at least filenameScore(P, K0) for
\* every K0 contained in K.
C18_FilenameScoreBounds ==
  (call.fn = "filenameScore" /\ ret # Pending) =>
    LET P == call.file
        K == call.keywords
    IN  /\ ret.value \in 0..Len(K)
        /\ ret.value =
             Cardinality({ k \in Range(K) : Includes(ToLowerCase(P), k) })
        /\ \A S \in SUBSET (1..Len(K)) :
             filenameScore(P, SubList(K, S)) <= ret.value

C18_Witness ==
  /\ call.fn = "filenameScore"
  /\ ret # Pending
  /\ Len(call.keywords) = 2
  /\ ret.value = 1
  /\ \E i \in 1..2 : Occurrences(ToLowerCase(call.file), call.keywords[i]) = 2

\* C19: for every size >= 0 tokenEstimate(size) is the least integer t with
\* 3.7 t >= size; it is 0, 28, 1000 and 2000 at 0, 100, 3700 and 7400; it
\* is non-decreasing in size; every ScoredFile has tokens =
\* tokenEstimate(size).
C19_TokenEstimateIsCeiling ==
  /\ (call.fn = "tokenEstimate" /\ ret # Pending) =>
       /\ 37 * ret.value >= 10 * call.bytes
       /\ 37 * (ret.value - 1) < 10 * call.bytes
       /\ call.bytes = 0 => ret.value = 0
       /\ call.bytes = 100 => ret.value = 28
       /\ call.bytes = 3700 => ret.value = 1000
       /\ call.bytes = 7400 => ret.value = 2000
       /\ \A smaller \in 0..call.bytes : tokenEstimate(smaller) <= ret.value
  /\ (call.fn = "scoreMany" /\ ret # Pending) =>
       \A i \in 1..Len(ret.value) :
         /\ 37 * ret.value[i].tokens >= 10 * ret.value[i].size
         /\ 37 * (ret.value[i].tokens - 1) < 10 * ret.value[i].size

C19_Witness ==
  /\ call.fn = "tokenEstimate"
  /\ ret # Pending
  /\ call.bytes = 100
  /\ ret.value = 28

\* C20: recencyScore is a number in [0, 1] for every timestamp (unknown,
\* past, later than the clock), is 0 for an unknown timestamp, exceeds 0.99
\* at age 0 and does not increase with the age.
C20_RecencyScoreInUnitInterval ==
  (call.fn = "recencyScore" /\ ret # Pending) =>
    /\ ~ret.value.nan
    /\ ret.value.val \in 0..200
    /\ ~call.known => ret.value.val = 0
    /\ (call.known /\ call.ageDays = 0) => ret.value.val > 198
    /\ call.known =>
         \A younger \in (0 - MaxSkewDays)..call.ageDays :
           /\ ~recencyScore(TRUE, younger).nan
           /\ recencyScore(TRUE, younger).val >= ret.value.val

\* position of file f in the list fs
IndexIn(fs, f) == CHOOSE i \in 1..Len(fs) : fs[i] = f

\* C16: the output of scoreMany is a permutation of the input in
\* non-increasing score order, candidates of equal score keep their input
\* order, and the order is determined by the inputs.
C16_ScoreManyStableDescending ==
  (call.fn = "scoreMany" /\ ret # Pending) =>
    LET out == ret.value
    IN  /\ Len(out) = Len(call.files)
        /\ { out[i].file : i \in 1..Len(out) } = Range(call.files)
        /\ \A i, j \in 1..Len(out) :
             i < j =>
               /\ ~out[i].score.nan /\ ~out[j].score.nan
               /\ out[i].score.val >= out[j].score.val
               /\ out[i].score.val = out[j].score.val
                    => IndexIn(call.files, out[i].file)
                         < IndexIn(call.files, out[j].file)
        /\ Cardinality(scoreMany(call.files, call.keywords, call.clock)) = 1

\* C21 as stated: with a very small budget the pipeline selects no more
\* than 5 files, whatever the size of the candidate pool.
C21_SmallBudgetAtMostFive ==
  SelectionFinal => Len(selected) <= 5

\* C21 amended: with a very small budget the pipeline selects no more than
\* 5 files exactly when the candidate pool has no more than 5 files; a
\* larger pool yields at least min(8, pool size) files.
C21_SmallBudgetAtMostFiveIffSmallPool ==
  SelectionFinal =>
    /\ Len(selected) <= 5 <=> Len(ranked) <= 5
    /\ Len(ranked) > 5 => Len(selected) >= Min(MIN_SELECTED_FILES, Len(ranked))

C21_Witness ==
  /\ SelectionFinal
  /\ Len(ranked) > MIN_SELECTED_FILES
  /\ Len(selected) = MIN_SELECTED_FILES
  /\ \A i \in 1..Len(ranked) : TokensOf[profile][ranked[i]] > args.budget

\* run(): the loop iteration of attempt k ended in the catch branch
AttemptCaught(k) ==
  LET b == agentEnv[attempts[k].agent]
  IN  ~selectFiles(attempts[k].agent, b).ok \/ b.conf = "str"

\* C22: in the agent chain the agents are invoked one at a time in the
\* order factory, opencode: the k-th invocation is of the k-th agent of the
\* chain and comes only after every earlier invocation failed; no agent is
\* invoked twice and none after one has succeeded.
C22_StrictPriorityOrder ==
  cli = "agent" =>
    /\ Len(attempts) <= Len(agentsToTry)
    /\ (args.smart \/ args.agent = "none")
         => \A k \in 1..Len(attempts) :
              attempts[k].agent = << "factory", "opencode" >>[k]
    /\ (~args.smart /\ args.agent # "none")
         => \A k \in 1..Len(attempts) : attempts[k].agent = args.agent
    /\ \A k \in 1..Len(attempts) :
         /\ \A j \in 1..(k - 1) : AttemptCaught(j)
         /\ \A j \in 1..Len(attempts) :
              attempts[j].agent = attempts[k].agent => j = k
         /\ ~AttemptCaught(k) => Len(attempts) = k

C22_Witness ==
  /\ cli = "agent"
  /\ pc = "done"
  /\ Len(attempts) = 2
  /\ attempts[1].agent = "factory"
  /\ attempts[1].kind = "unavailable"
  /\ ~AttemptCaught(2)

\* the positions at which a well-formed JSON object with a files array
\* starts in s
ObjectStarts(s) ==
  { i \in 1..(Len(s) - 2) :
      s[i] = "{" /\ s[i + 1] \in { "a", "b" } /\ s[i + 2] = "}" }

\* C23: for every raw response that contains a well-formed JSON object with
\* a files array, whatever text surrounds it, parseResponse returns the
\* files of the first such object.
C23_FirstJsonObjectExtracted ==
  (call.fn = "parseResponse" /\ ret # Pending
     /\ ObjectStarts(call.output) # {}) =>
    LET first == CHOOSE i \in ObjectStarts(call.output) :
                   \A j \in ObjectStarts(call.output) : i <= j
    IN  ret.value.ok /\ ret.value.files = call.output[first + 1]

\* 3 * filenameScore + 2 * contentScore
WeightedHits(f, keywords) ==
  3 * filenameScore(PathOf[f], keywords) + 2 * contentHits(f, keywords)

C25_GitFailureDegrades ==
  (cli = "reposelect" /\ gitFails # {}) =>
    /\ "ls-files" \in gitFails =>
         \A i \in 1..Len(ranked) : ranked[i] \in ContentMatchSet[question]
    /\ "grep" \in gitFails =>
         \A i \in 1..Len(ranked) :
           ranked[i] \in (NameMatchSet[question] \cup MustIncludeSet) \ IgnoredSet
    /\ { "ls-files", "grep" } \subseteq gitFails => ranked = <<>>
    /\ "log" \in gitFails =>
         \A i \in 1..(Len(ranked) - 1) :
           ScoreOfWithoutLog[question][profile][ranked[i]]
             >= ScoreOfWithoutLog[question][profile][ranked[i + 1]]
    /\ pc = "done" =>
         \/ exitCode = 2 /\ packed = <<>> /\ ranked = <<>>
         \/ packed = << selected >> /\ selected # <<>>

C25_Witness ==
  /\ cli = "reposelect"
  /\ gitFails = { "ls-files", "log" }
  /\ pc = "done"
  /\ packed = << selected >>
  /\ Len(selected) > 1

\* C26: every path of the candidate pool, whichever source contributed it,
\* is in the filtered in-scope list: no path under an ignored directory or
\* with an excluded suffix is ever ranked or selected.
C26_CandidatesAreInScope ==
  cli = "reposelect" =>
    /\ \A i \in 1..Len(ranked) : ranked[i] \notin IgnoredSet
    /\ \A i \in 1..Len(selected) : selected[i] \notin IgnoredSet

\* C27: every agent-returned path that reaches the packer denotes a file
\* inside the repository root; a path that resolves above the root is
\* dropped even when a file exists there.
C27_PackedPathsInsideRoot ==
  \A i \in 1..Len(packed) :
    \A j \in 1..Len(packed[i]) : packed[i][j] \notin OutsideFiles

\* C28: the instruction file handed to the packer embeds the question of the
\* run that packs, whatever earlier runs on the same repository left behind.
C28_InstructionFileIsCurrent ==
  packed # <<>> => instructionFile = question

\* C29: an attempt of the agent chain that ends in the catch branch leaves
\* selectedFiles, reasoning and source as they were before the attempt.
C29_FailedAttemptKeepsSelection ==
  [][(cli = "agent" /\ Len(attempts') = Len(attempts) + 1
        /\ AttemptCaught(Len(attempts))')
       => UNCHANGED << selectedFiles, reasoning, source >>]_vars

(***************************************************************************)
(* Runs that consult an agent, under the assumption that every step of the *)
(* controller, external process calls included, returns.                   *)
(***************************************************************************)
InitWithAgent ==
  /\ Init
  /\ cli = "reposelect" => agentOf(args) # "none"

FairSpec ==
  /\ InitWithAgent
  /\ [][Next]_vars
  /\ WF_vars(TryAgentSelection)
  /\ WF_vars(AgentAttempt)
  /\ WF_vars(AfterLoop)

\* the agents the controller may consult, in order
chainOf ==
  IF cli = "agent" THEN agentsToTry ELSE << agentOf(args) >>

\* the controller has left its Trying states
ControllerDone ==
  \/ cli = "agent" /\ pc = "done"
  \/ cli = "reposelect" /\ pc # "main"

\* the selection of an agent was handed to the packer or previewed
ControllerSucceeded ==
  \/ cli = "reposelect" /\ pc = "done" /\ selected = <<>> /\ packed # <<>>
  \/ cli = "agent" /\ pc = "done"
       /\ (packed # <<>> \/ (args.dryRun /\ exitCode = 0))

\* the controller ended without an agent selection: the deterministic
\* pipeline takes over (reposelect.ts) or the run ends with the error
\* 'No agent could select files' (agent CLI)
ControllerExhausted ==
  \/ cli = "reposelect" /\ pc # "main"
       /\ Len(attempts) = 1 /\ AttemptFailed(attempts[1])
       /\ (packed # <<>> => selected # <<>>)
  \/ cli = "agent" /\ pc = "done"
       /\ exitCode = 1 /\ packed = <<>>

\* C30: the agent controller terminates: it makes at most one attempt per
\* agent of the chain, in chain order without revisiting an agent, and then
\* reaches exactly one of the outcomes Succeeded and Exhausted.
C30_ControllerTerminates ==
  /\ <>ControllerDone
  /\ [](ControllerDone => (ControllerSucceeded # ControllerExhausted))
  /\ [](/\ Len(attempts) <= Len(chainOf)
        /\ \A j, k \in 1..Len(attempts) :
             attempts[j].agent = attempts[k].agent => j = k)

C30_Witness ==
  /\ cli = "agent"
  /\ Len(agentsToTry) = 2
  /\ Len(attempts) = 2
  /\ ControllerDone
  /\ ControllerExhausted
  /\ ~ControllerSucceeded

====
